---------------------------- MODULE Spec2Model ----------------------------
(***************************************************************************)
(* Model of api/utils/language_utils.py: the sentence extractor            *)
(* extract_first_sentence_for_detection and the language classifier        *)
(* detect_language.                                                        *)
(*                                                                         *)
(* A character is its Unicode code point (a natural number) and a text is  *)
(* a sequence of code points.  One behaviour is one call of one of the two *)
(* functions, executed statement by statement: pc is the position in the   *)
(* function body, the other variables are the call's locals.  A second     *)
(* specification, SpecConc, runs several calls with their statements       *)
(* interleaved: calls holds each call's arguments, position and returned   *)
(* value, locals holds the local variables of each activation.             *)
(***************************************************************************)
EXTENDS Integers, Sequences, FiniteSets

VARIABLES
    op,              \* which function was called: "none", "detect", "extract"
    pc,              \* position in the function body
    input,           \* the text argument as the caller passed it
    text,            \* the local `text` (extract rebinds it to text.strip())
    max_chars,       \* the max_chars argument of extract
    i,               \* detect: number of characters the scan loop has examined
    char_counts,     \* detect: the char_counts dictionary
    first_sentence,  \* extract: the local first_sentence
    pattern_idx,     \* extract: index of the next entry of quote_patterns
    result,          \* detect: the value returned ("unset" before the return)
    extracted,       \* extract: the string returned
    arg,             \* type and truth value of the argument passed as `text`
    raised,          \* the exception that ended the call, "none" when none did
    calls,           \* SpecConc: arguments, position and return value per call
    locals           \* SpecConc: the local variables of each activation

\* the variables of the single call
single == <<op, pc, input, text, max_chars, i, char_counts, first_sentence,
            pattern_idx, result, extracted, arg, raised>>

vars == <<op, pc, input, text, max_chars, i, char_counts, first_sentence,
          pattern_idx, result, extracted, arg, raised, calls, locals>>

-----------------------------------------------------------------------------
(* Bounds of the model.                                                    *)

\* longest text built from every combination of the classifier alphabet
MaxLen == 3
\* number of filler letters appended to a short text to form a long one
PadLen == 17
\* longest text built from every combination of one quote pair's alphabet
QuoteLen == 5
\* longest text built from every combination of the sentence alphabet
SentenceLen == 3
\* longest text built from every combination of the mixed quote alphabet
MixedLen == 4
\* longest run of upper case letters in the acronym texts
AcronymRun == 7
\* longest whitespace run in the gap texts
GapLen == 2
\* number of calls that run interleaved
NumCalls == 2
\* largest small max_chars argument tried (besides the default)
MaxCharsBound == 4

-----------------------------------------------------------------------------
(* Character tables.                                                       *)

HiraganaLo == 12352
HiraganaHi == 12447
KatakanaLo == 12448
KatakanaHi == 12543
KanjiLo == 19968
KanjiHi == 40959
AsciiLimit == 128
Newline == 10
Period == 46
DefaultMaxChars == 50

\* Tier 1: the set built at lines 123-131
vietnamese_unique ==
    {259, 273, 417, 432, 258, 272, 416, 431,
     7863, 7859, 7861, 7855, 7857, 7853, 7849, 7851, 7845, 7847,
     7907, 7903, 7905, 7899, 7901, 7897, 7893, 7895, 7889, 7891,
     7921, 7917, 7919, 7913, 7915,
     7862, 7858, 7860, 7854, 7856, 7852, 7848, 7850, 7844, 7846,
     7906, 7902, 7904, 7898, 7900, 7896, 7892, 7894, 7888, 7890,
     7920, 7916, 7918, 7912, 7914}

\* mutation of vietnamese_common: the tier also lists plain French and Spanish
\* accents (a-grave, a-acute, c-cedilla, n-tilde)
vietnamese_common_with_accents ==
    {7841, 7843, 7865, 7867, 7883, 7881, 7885, 7887, 7909, 7911, 7925, 7927,
     7840, 7842, 7864, 7866, 7882, 7880, 7884, 7886, 7908, 7910, 7924, 7926,
     224, 225, 231, 241}

\* Tier 2: the set built at lines 134-137
vietnamese_common ==
    {7841, 7843, 7865, 7867, 7883, 7881, 7885, 7887, 7909, 7911, 7925, 7927,
     7840, 7842, 7864, 7866, 7882, 7880, 7884, 7886, 7908, 7910, 7924, 7926}

\* str.isspace(), which str.strip() and the regex class \s both use
IsSpace(c) ==
    c \in {9, 10, 11, 12, 13, 28, 29, 30, 31, 32, 133, 160, 5760,
           8232, 8233, 8239, 8287, 12288} \cup (8192..8202)

\* char.isalpha() restricted to ord(char) < 128
IsAsciiAlpha(c) == c < AsciiLimit /\ (c \in 65..90 \/ c \in 97..122)

\* the regex class [A-Z]
IsUpper(c) == c \in 65..90

\* the regex class \w on str patterns (alphanumeric or underscore), over the
\* blocks the model's texts are drawn from: ASCII, Latin-1, Latin Extended-A/B,
\* Latin Extended Additional, Hiragana, Katakana, CJK Unified Ideographs
IsWord(c) ==
    \/ c \in 48..57 \/ c \in 65..90 \/ c = 95 \/ c \in 97..122
    \/ c \in {170, 178, 179, 181, 185, 186, 188, 189, 190}
    \/ (c \in 192..591 /\ c \notin {215, 247})
    \/ c \in 7680..7935
    \/ c \in 12353..12438 \/ c \in 12445..12447
    \/ c \in 12449..12538 \/ c \in 12540..12543
    \/ c \in KanjiLo..KanjiHi

\* the if/elif chain of the scan loop: the one count a character increments
CharClass(c) ==
    IF HiraganaLo <= c /\ c <= HiraganaHi THEN "hiragana"
    ELSE IF KatakanaLo <= c /\ c <= KatakanaHi THEN "katakana"
    ELSE IF KanjiLo <= c /\ c <= KanjiHi THEN "kanji"
    ELSE IF c \in vietnamese_unique THEN "vietnamese_unique"
    ELSE IF c \in vietnamese_common THEN "vietnamese_common"
    ELSE IF IsAsciiAlpha(c) THEN "ascii"
    ELSE "other"

-----------------------------------------------------------------------------
(* String helpers: Python's str and re operations on code point sequences. *)

Min(S) == CHOOSE x \in S : \A y \in S : x <= y

\* s[:n] for n >= 0
Prefix(s, n) == SubSeq(s, 1, IF n < Len(s) THEN n ELSE Len(s))

\* str.find(ch): 0-based index of the first occurrence, -1 when absent
Find(s, ch) ==
    IF \E j \in 1..Len(s) : s[j] = ch
    THEN Min({j \in 1..Len(s) : s[j] = ch}) - 1
    ELSE -1

\* str.strip()
Strip(s) ==
    LET keep == {j \in 1..Len(s) : ~IsSpace(s[j])}
    IN  IF keep = {} THEN <<>>
        ELSE SubSeq(s, Min(keep), CHOOSE x \in keep : \A y \in keep : y <= x)

\* mutation of IsBlank: only `not text`, the strip() test forgotten
IsBlankEmptyOnly(s) == Len(s) = 0

\* `not text or not text.strip()`
IsBlank(s) == Len(s) = 0 \/ Len(Strip(s)) = 0


\* the list quote_patterns: each entry r'O[^C]*C' as its opening delimiter O and
\* its closing delimiter C.  Entries 1 and 5 are both written with U+0022.
quote_patterns ==
    << [open |-> 34,    close |-> 34],
       [open |-> 39,    close |-> 39],
       [open |-> 12300, close |-> 12301],
       [open |-> 12302, close |-> 12303],
       [open |-> 34,    close |-> 34],
       [open |-> 8216,  close |-> 8217] >>

\* mutation of MatchQuote: the greedy pattern O.*C, which runs to the last C
MatchQuoteGreedy(s, pat, p) ==
    IF s[p] = pat.open /\ \E q \in (p + 1)..Len(s) : s[q] = pat.close
    THEN CHOOSE q \in (p + 1)..Len(s) :
            /\ s[q] = pat.close
            /\ \A r \in (q + 1)..Len(s) : s[r] # pat.close
    ELSE 0

\* where a match of O[^C]*C that starts at position p ends, 0 when there is no
\* match at p: [^C]* cannot cross a C, so the match ends at the first C after p
MatchQuote(s, pat, p) ==
    IF s[p] = pat.open /\ \E q \in (p + 1)..Len(s) : s[q] = pat.close
    THEN Min({q \in (p + 1)..Len(s) : s[q] = pat.close})
    ELSE 0

\* re.sub(pattern, '', s) for one quote pattern: leftmost matches, left to
\* right, never overlapping
RECURSIVE SubQuoteFrom(_, _, _)
SubQuoteFrom(s, pat, p) ==
    IF p > Len(s) THEN <<>>
    ELSE IF MatchQuote(s, pat, p) # 0
         THEN SubQuoteFrom(s, pat, MatchQuote(s, pat, p) + 1)
         ELSE <<s[p]>> \o SubQuoteFrom(s, pat, p + 1)

ReSubQuote(s, pat) == SubQuoteFrom(s, pat, 1)

\* the regex assertion \b just before position p (p = Len(s) + 1: at the end)
WordBoundary(s, p) ==
    (p > 1 /\ IsWord(s[p - 1])) # (p <= Len(s) /\ IsWord(s[p]))

\* mutation of MatchAcronym: the closing \b forgotten
MatchAcronymNoEndBoundary(s, p) ==
    LET ks == {k \in 2..5 : /\ p + k - 1 <= Len(s)
                            /\ \A j \in p..(p + k - 1) : IsUpper(s[j])}
    IN  IF WordBoundary(s, p) /\ ks # {}
        THEN p + (CHOOSE k \in ks : \A m \in ks : m <= k) - 1
        ELSE 0

\* mutation of MatchAcronym: the quantifier written {2,4}
MatchAcronymUpToFour(s, p) ==
    LET ks == {k \in 2..4 : /\ p + k - 1 <= Len(s)
                            /\ \A j \in p..(p + k - 1) : IsUpper(s[j])
                            /\ WordBoundary(s, p + k)}
    IN  IF WordBoundary(s, p) /\ ks # {}
        THEN p + (CHOOSE k \in ks : \A m \in ks : m <= k) - 1
        ELSE 0

\* where a match of \b[A-Z]{2,5}\b that starts at position p ends, 0 when there
\* is none: the longest run length k in 2..5 that \b accepts (greedy, backtracking)
MatchAcronym(s, p) ==
    LET ks == {k \in 2..5 : /\ p + k - 1 <= Len(s)
                            /\ \A j \in p..(p + k - 1) : IsUpper(s[j])
                            /\ WordBoundary(s, p + k)}
    IN  IF WordBoundary(s, p) /\ ks # {}
        THEN p + (CHOOSE k \in ks : \A m \in ks : m <= k) - 1
        ELSE 0

\* re.sub(r'\b[A-Z]{2,5}\b', '', s)
RECURSIVE SubAcronymFrom(_, _)
SubAcronymFrom(s, p) ==
    IF p > Len(s) THEN <<>>
    ELSE IF MatchAcronym(s, p) # 0
         THEN SubAcronymFrom(s, MatchAcronym(s, p) + 1)
         ELSE <<s[p]>> \o SubAcronymFrom(s, p + 1)

ReSubAcronym(s) == SubAcronymFrom(s, 1)

\* where a match of \s+ that starts at position p ends (p is whitespace)
MatchSpaces(s, p) ==
    LET rest == {q \in p..Len(s) : ~IsSpace(s[q])}
    IN  IF rest = {} THEN Len(s) ELSE Min(rest) - 1

\* re.sub(r'\s+', ' ', s)
RECURSIVE SubSpacesFrom(_, _)
SubSpacesFrom(s, p) ==
    IF p > Len(s) THEN <<>>
    ELSE IF IsSpace(s[p])
         THEN <<32>> \o SubSpacesFrom(s, MatchSpaces(s, p) + 1)
         ELSE <<s[p]>> \o SubSpacesFrom(s, p + 1)

\* mutation of ReSubSpaces: r'\s' instead of r'\s+', no run is collapsed
ReSubSpacesEach(s) == [j \in 1..Len(s) |-> IF IsSpace(s[j]) THEN 32 ELSE s[j]]

ReSubSpaces(s) == SubSpacesFrom(s, 1)

\* mutation of FirstSentence: max(delimiters) instead of min(delimiters)
FirstSentenceLastDelimiter(t) ==
    LET delimiters == {pos \in {Find(t, Newline), Find(t, Period)} : pos # -1}
    IN  IF delimiters # {}
        THEN Prefix(t, (CHOOSE x \in delimiters : \A y \in delimiters : y <= x) + 1)
        ELSE t

\* mutation of FirstSentence: '?' ends a sentence as well
FirstSentenceQuestionMark(t) ==
    LET delimiters == {pos \in {Find(t, Newline), Find(t, Period), Find(t, 63)} :
                          pos # -1}
    IN  IF delimiters # {}
        THEN Prefix(t, Min(delimiters) + 1)
        ELSE t

\* lines 51-59: the text up to and including the earliest of '\n' and '.'
FirstSentence(t) ==
    LET newline_pos == Find(t, Newline)
        period_pos  == Find(t, Period)
        delimiters  == {pos \in {newline_pos, period_pos} : pos # -1}
    IN  IF delimiters # {}
        THEN Prefix(t, Min(delimiters) + 1)
        ELSE t

\* mutation of Truncated: the slice is one character too long
TruncatedOffByOne(s, m) == IF Len(s) > m THEN Prefix(s, m + 1) ELSE s

\* lines 61-63: the max character limit
Truncated(s, m) == IF Len(s) > m THEN Prefix(s, m) ELSE s

-----------------------------------------------------------------------------
(* The decision of detect_language.                                        *)

\* the thresholds 0.05, 0.5 and 0.5 of the decision logic, in percent
KanaThreshold == 5
KanjiThreshold == 50
AsciiThreshold == 50

\* the initial value of the dictionary char_counts
ZeroCounts ==
    [hiragana |-> 0, katakana |-> 0, kanji |-> 0, vietnamese_unique |-> 0,
     vietnamese_common |-> 0, ascii |-> 0, total |-> 0]

\* mutation of CountChar: an ASCII letter that follows a kanji is not counted
CountCharAfterKanji(cc, c) ==
    LET counted == [cc EXCEPT !.total = @ + 1]
        class   == CharClass(c)
    IN  IF class = "other" \/ (class = "ascii" /\ cc.kanji > 0) THEN counted
        ELSE [counted EXCEPT ![class] = @ + 1]

\* mutation of CountChar: total is incremented for classified characters only
CountCharClassifiedOnly(cc, c) ==
    LET class == CharClass(c)
    IN  IF class = "other" THEN cc
        ELSE [cc EXCEPT ![class] = @ + 1, !.total = @ + 1]

\* the body of the scan loop for one character
CountChar(cc, c) ==
    LET counted == [cc EXCEPT !.total = @ + 1]
        class   == CharClass(c)
    IN  IF class = "other" THEN counted
        ELSE [counted EXCEPT ![class] = @ + 1]

\* mutation of Decision: the fallback `ascii > 0` rule left out
DecisionMajorityOnly(cc) ==
    IF cc.total = 0 THEN "None"
    ELSE IF 100 * (cc.hiragana + cc.katakana) > KanaThreshold * cc.total
         THEN "Japanese"
    ELSE IF 100 * cc.kanji > KanjiThreshold * cc.total THEN "Japanese"
    ELSE IF cc.vietnamese_unique >= 1 THEN "Vietnamese"
    ELSE IF cc.vietnamese_common >= 1 THEN "Vietnamese"
    ELSE IF 100 * cc.ascii > AsciiThreshold * cc.total THEN "English"
    ELSE "None"

\* mutation of Decision: the Vietnamese rules are tested before the Japanese ones
DecisionVietnameseFirst(cc) ==
    IF cc.total = 0 THEN "None"
    ELSE IF cc.vietnamese_unique >= 1 THEN "Vietnamese"
    ELSE IF cc.vietnamese_common >= 1 THEN "Vietnamese"
    ELSE IF 100 * (cc.hiragana + cc.katakana) > KanaThreshold * cc.total
         THEN "Japanese"
    ELSE IF 100 * cc.kanji > KanjiThreshold * cc.total THEN "Japanese"
    ELSE IF cc.ascii > 0 THEN "English"
    ELSE "None"

\* mutation of Decision: kana must be a majority, like kanji
DecisionKanaMajority(cc) ==
    IF cc.total = 0 THEN "None"
    ELSE IF 100 * (cc.hiragana + cc.katakana) > KanjiThreshold * cc.total
         THEN "Japanese"
    ELSE IF 100 * cc.kanji > KanjiThreshold * cc.total THEN "Japanese"
    ELSE IF cc.vietnamese_unique >= 1 THEN "Vietnamese"
    ELSE IF cc.vietnamese_common >= 1 THEN "Vietnamese"
    ELSE IF cc.ascii > 0 THEN "English"
    ELSE "None"

\* mutation of Decision: the majority-ASCII rule is tested before the
\* Vietnamese rules
DecisionEnglishFirst(cc) ==
    IF cc.total = 0 THEN "None"
    ELSE IF 100 * (cc.hiragana + cc.katakana) > KanaThreshold * cc.total
         THEN "Japanese"
    ELSE IF 100 * cc.kanji > KanjiThreshold * cc.total THEN "Japanese"
    ELSE IF 100 * cc.ascii > AsciiThreshold * cc.total THEN "English"
    ELSE IF cc.vietnamese_unique >= 1 THEN "Vietnamese"
    ELSE IF cc.vietnamese_common >= 1 THEN "Vietnamese"
    ELSE IF cc.ascii > 0 THEN "English"
    ELSE "None"

\* lines 160-196.  A ratio count / total_chars > p / 100 is compared as
\* 100 * count > p * total_chars: the float division and the exact comparison
\* agree for every total below 2^50.
Decision(cc) ==
    LET total_chars == cc.total
    IN  IF total_chars = 0 THEN "None"
        ELSE IF 100 * (cc.hiragana + cc.katakana) > KanaThreshold * total_chars
             THEN "Japanese"
        ELSE IF 100 * cc.kanji > KanjiThreshold * total_chars THEN "Japanese"
        ELSE IF cc.vietnamese_unique >= 1 THEN "Vietnamese"
        ELSE IF cc.vietnamese_common >= 1 THEN "Vietnamese"
        ELSE IF 100 * cc.ascii > AsciiThreshold * total_chars THEN "English"
        ELSE IF cc.ascii > 0 THEN "English"
        ELSE "None"

-----------------------------------------------------------------------------
(* The two functions as values of their arguments: the statements of a     *)
(* call composed in program order.                                         *)

\* the scan loop from character k on, starting from the counts cc
RECURSIVE ScanFrom(_, _, _)
ScanFrom(t, k, cc) ==
    IF k > Len(t) THEN cc ELSE ScanFrom(t, k + 1, CountChar(cc, t[k]))

\* detect_language(t)
DetectOf(t) ==
    IF IsBlank(t) THEN "None" ELSE Decision(ScanFrom(t, 1, ZeroCounts))

\* the pattern loop from entry k on
RECURSIVE StripQuotesFrom(_, _)
StripQuotesFrom(s, k) ==
    IF k > Len(quote_patterns) THEN s
    ELSE StripQuotesFrom(ReSubQuote(s, quote_patterns[k]), k + 1)

\* extract_first_sentence_for_detection(t, m)
ExtractOf(t, m) ==
    IF IsBlank(t) THEN <<>>
    ELSE Strip(ReSubSpaces(ReSubAcronym(
             StripQuotesFrom(Truncated(FirstSentence(Strip(t)), m), 1))))

-----------------------------------------------------------------------------
(* The texts and max_chars values the calls are made with.                 *)

SeqsUpTo(A, n) == UNION {[1..k -> A] : k \in 0..n}

Repeat(c, n) == [j \in 1..n |-> c]

\* one character of every class of the scan loop: hiragana, katakana, kanji,
\* tier 1, tier 2, ASCII letter, and two unclassified ones (c-cedilla, space)
ClassifierAlphabet == {12354, 12459, 26085, 273, 7841, 97, 231, 32}

\* the documented calls of detect_language
DetectExamples ==
    { <<87, 104, 97, 116, 32, 105, 115, 32, 109, 97, 99, 104, 105, 110, 101,
        32, 108, 101, 97, 114, 110, 105, 110, 103, 63>>,
      <<27231, 26800, 23398, 32722, 12392, 12399, 65311>>,
      <<72, 7885, 99, 32, 109, 225, 121, 32, 108, 224, 32, 103, 236, 63>>,
      <<66, 111, 110, 106, 111, 117, 114, 44, 32, 99, 111, 109, 109, 101,
        110, 116, 32, 231, 97, 32, 118, 97, 63>> }

\* short texts, and short texts followed by PadLen letters 'a'
DetectTexts ==
    SeqsUpTo(ClassifierAlphabet, MaxLen)
    \cup {t \o Repeat(97, PadLen) : t \in SeqsUpTo(ClassifierAlphabet, MaxLen)}
    \cup DetectExamples

\* a letter with the two delimiters of each kind of quotation mark
QuoteAlphabets ==
    { {97, 34}, {97, 39}, {97, 12300, 12301}, {97, 12302, 12303},
      {97, 8220, 8221}, {97, 8216, 8217} }

\* lower and upper case letter, space, newline, period, double quote
SentenceAlphabet == {97, 65, 32, 10, 46, 34}

WhatIsExample ==
    <<87, 104, 97, 116, 32, 105, 115, 32, 39, 109, 97, 99, 104, 105, 110,
      101, 32, 108, 101, 97, 114, 110, 105, 110, 103, 39, 63, 32, 115, 101,
      99, 111, 110, 100, 32, 115, 101, 110, 116, 101, 110, 99, 101>>

JapaneseExample ==
    <<27231, 26800, 23398, 32722, 12392, 12399, 20309, 12391, 12377, 12363,
      65311, 27425, 12398, 25991, 12290>>

AcronymExample ==
    <<69, 120, 112, 108, 97, 105, 110, 32, 78, 68, 65, 32, 99, 111, 110, 99,
      101, 112, 116, 46, 32, 77, 111, 114, 101, 32, 116, 101, 120, 116, 46>>

\* the delimiters of three quotation patterns together
MixedQuoteAlphabet == {34, 39, 12300, 12301}

\* what stands before and after a run of upper case letters: nothing, up to
\* two letters or spaces, an underscore, e-acute, a hyphen
Affixes == SeqsUpTo({97, 32}, 2) \cup {<<95>>, <<233>>, <<45>>}

\* a run of 1..AcronymRun letters 'A' between two affixes
AcronymTexts ==
    {pre \o Repeat(65, n) \o suf :
        pre \in Affixes, suf \in Affixes, n \in 1..AcronymRun}

\* tab and ideographic space (space and newline are in the sentence alphabet)
WhitespaceChars == {9, 12288}

\* what the quote loop or the acronym pass deletes: nothing, "a", AA
DeletedSpans == {<<>>, <<34, 97, 34>>, <<65, 65>>}

\* whitespace runs around a deleted span and around the text
GapTexts ==
    LET Gaps == SeqsUpTo(WhitespaceChars, GapLen)
    IN  {<<97>> \o g \o d \o h \o <<97>> :
            g \in Gaps, h \in Gaps, d \in DeletedSpans}
        \cup {g \o <<97>> \o h : g \in Gaps, h \in Gaps}

ExtractTexts ==
    UNION {SeqsUpTo(A, QuoteLen) : A \in QuoteAlphabets}
    \cup SeqsUpTo(SentenceAlphabet, SentenceLen)
    \cup SeqsUpTo(MixedQuoteAlphabet, MixedLen)
    \cup AcronymTexts
    \cup GapTexts
    \cup {WhatIsExample, JapaneseExample, AcronymExample}

MaxCharsValues == (1..MaxCharsBound) \cup {DefaultMaxChars}

-----------------------------------------------------------------------------
(* Arguments that are not text.  Of such a value the two functions use its *)
(* type (has it a strip method?) and its truth value (`not text`).         *)

\* before any call
NoArgument == [type |-> "none", truthy |-> FALSE]

\* a str argument: a str is true when it is not empty
TextArgument(t) == [type |-> "str", truthy |-> Len(t) > 0]

\* None, a zero and a non-zero number, an empty and a non-empty list
NonTextArguments ==
    {[type |-> "NoneType", truthy |-> FALSE]}
        \cup {[type |-> ty, truthy |-> b] : ty \in {"int", "list"}, b \in BOOLEAN}

\* mutation of Falsy: the guard written `text is None`
FalsyNoneOnly(a) == a.type = "NoneType"

\* `not text`
Falsy(a) == ~a.truthy

\* what evaluating text.strip() raises: only str has the method
StripOf(a) == IF a.type = "str" THEN "none" ELSE "AttributeError"

-----------------------------------------------------------------------------
(* Interleaved calls: the state of one call and of one activation.         *)

Calls == 1..NumCalls

\* a call that has not started
IdleCall ==
    [op |-> "none", pc |-> "idle", input |-> <<>>, max_chars |-> DefaultMaxChars,
     result |-> "unset", extracted |-> <<>>]

\* the locals of an activation before any is bound
FreshLocals ==
    [text |-> <<>>, i |-> 0, char_counts |-> ZeroCounts,
     first_sentence |-> <<>>, pattern_idx |-> 1]

\* mutation of Slot: the locals kept at module level, one copy for all calls
SlotShared(c) == 1

\* where the locals of call c live: every call has its own activation, and
\* the dictionary of lines 112-120 is built anew in it
Slot(c) == c

\* the texts of the interleaved calls: kana with a letter, a tier-1 letter
\* with a letter and a space, a blank text
ConcDetectTexts == {<<12354, 97>>, <<273, 97, 32>>, <<32>>}

\* a "a" AA.a  and  a<newline>a with a leading space
ConcExtractTexts ==
    {<<97, 32, 34, 97, 34, 32, 65, 65, 46, 97>>, <<32, 97, 10, 97>>}

ConcMaxChars == {MaxCharsBound, DefaultMaxChars}

-----------------------------------------------------------------------------
(* The calls, statement by statement.                                      *)

Init ==
    /\ op = "none"
    /\ pc = "idle"
    /\ input = <<>>
    /\ text = <<>>
    /\ max_chars = DefaultMaxChars
    /\ i = 0
    /\ char_counts = ZeroCounts
    /\ first_sentence = <<>>
    /\ pattern_idx = 1
    /\ result = "unset"
    /\ extracted = <<>>
    /\ arg = NoArgument
    /\ raised = "none"
    /\ calls = [c \in Calls |-> IdleCall]
    /\ locals = [c \in Calls |-> FreshLocals]

\* detect_language(t), lines 108-120: the blank check, then the empty counts
DetectCall ==
    /\ pc = "idle"
    /\ \E t \in DetectTexts :
        /\ op' = "detect"
        /\ input' = t
        /\ arg' = TextArgument(t)
        /\ text' = t
        /\ IF IsBlank(t)
           THEN /\ result' = "None"
                /\ pc' = "done"
           ELSE /\ result' = result
                /\ pc' = "scan"
    /\ char_counts' = ZeroCounts
    /\ i' = 0
    /\ raised' = "none"
    /\ UNCHANGED <<max_chars, first_sentence, pattern_idx, extracted, calls,
                   locals>>

\* detect_language(a) for an argument that is not a str, lines 108-109: `not a`
\* returns None; otherwise a.strip() raises AttributeError
DetectCallNonText ==
    /\ pc = "idle"
    /\ \E a \in NonTextArguments :
        /\ op' = "detect"
        /\ arg' = a
        /\ IF Falsy(a)
           THEN /\ result' = "None"
                /\ raised' = "none"
                /\ pc' = "done"
           ELSE /\ result' = result
                /\ raised' = StripOf(a)
                /\ pc' = "raised"
    /\ UNCHANGED <<input, text, max_chars, i, char_counts, first_sentence,
                   pattern_idx, extracted, calls, locals>>

\* one iteration of `for char in text`, lines 139-158
ScanChar ==
    /\ pc = "scan"
    /\ i < Len(text)
    /\ char_counts' = CountChar(char_counts, text[i + 1])
    /\ i' = i + 1
    /\ UNCHANGED <<op, pc, input, text, max_chars, first_sentence, pattern_idx,
                   result, extracted,
                   arg, raised, calls, locals>>

\* the loop is exhausted: lines 160-196
Decide ==
    /\ pc = "scan"
    /\ i = Len(text)
    /\ result' = Decision(char_counts)
    /\ pc' = "done"
    /\ UNCHANGED <<op, input, text, max_chars, i, char_counts, first_sentence,
                   pattern_idx, extracted,
                   arg, raised, calls, locals>>

\* extract_first_sentence_for_detection(t, m), lines 45-48
ExtractCall ==
    /\ pc = "idle"
    /\ \E t \in ExtractTexts, m \in MaxCharsValues :
        /\ op' = "extract"
        /\ input' = t
        /\ arg' = TextArgument(t)
        /\ max_chars' = m
        /\ IF IsBlank(t)
           THEN /\ text' = t
                /\ extracted' = <<>>
                /\ pc' = "done"
           ELSE /\ text' = Strip(t)
                /\ extracted' = extracted
                /\ pc' = "delimit"
    /\ raised' = "none"
    /\ UNCHANGED <<i, char_counts, first_sentence, pattern_idx, result, calls,
                   locals>>

\* extract_first_sentence_for_detection(a, m) for an argument that is not a
\* str, lines 45-48: `not a` returns ""; otherwise a.strip() raises
\* AttributeError
ExtractCallNonText ==
    /\ pc = "idle"
    /\ \E a \in NonTextArguments, m \in MaxCharsValues :
        /\ op' = "extract"
        /\ arg' = a
        /\ max_chars' = m
        /\ IF Falsy(a)
           THEN /\ extracted' = <<>>
                /\ raised' = "none"
                /\ pc' = "done"
           ELSE /\ extracted' = extracted
                /\ raised' = StripOf(a)
                /\ pc' = "raised"
    /\ UNCHANGED <<input, text, i, char_counts, first_sentence, pattern_idx,
                   result, calls, locals>>

\* lines 50-59
FindDelimiter ==
    /\ pc = "delimit"
    /\ first_sentence' = FirstSentence(text)
    /\ pc' = "truncate"
    /\ UNCHANGED <<op, input, text, max_chars, i, char_counts, pattern_idx,
                   result, extracted,
                   arg, raised, calls, locals>>

\* lines 61-63
Truncate ==
    /\ pc = "truncate"
    /\ first_sentence' = Truncated(first_sentence, max_chars)
    /\ pattern_idx' = 1
    /\ pc' = "quotes"
    /\ UNCHANGED <<op, input, text, max_chars, i, char_counts, result,
                   extracted,
                   arg, raised, calls, locals>>

\* one iteration of `for pattern in quote_patterns`, lines 76-77
StripQuotes ==
    /\ pc = "quotes"
    /\ pattern_idx <= Len(quote_patterns)
    /\ first_sentence' = ReSubQuote(first_sentence, quote_patterns[pattern_idx])
    /\ pattern_idx' = pattern_idx + 1
    /\ UNCHANGED <<op, pc, input, text, max_chars, i, char_counts, result,
                   extracted,
                   arg, raised, calls, locals>>

\* the pattern loop is exhausted: line 81
StripAcronyms ==
    /\ pc = "quotes"
    /\ pattern_idx > Len(quote_patterns)
    /\ first_sentence' = ReSubAcronym(first_sentence)
    /\ pc' = "whitespace"
    /\ UNCHANGED <<op, input, text, max_chars, i, char_counts, pattern_idx,
                   result, extracted,
                   arg, raised, calls, locals>>

\* lines 84-86
CleanWhitespace ==
    /\ pc = "whitespace"
    /\ first_sentence' = Strip(ReSubSpaces(first_sentence))
    /\ extracted' = first_sentence'
    /\ pc' = "done"
    /\ UNCHANGED <<op, input, text, max_chars, i, char_counts, pattern_idx,
                   result,
                   arg, raised, calls, locals>>

Next ==
    \/ DetectCall
    \/ DetectCallNonText
    \/ ScanChar
    \/ Decide
    \/ ExtractCall
    \/ ExtractCallNonText
    \/ FindDelimiter
    \/ Truncate
    \/ StripQuotes
    \/ StripAcronyms
    \/ CleanWhitespace

Spec == Init /\ [][Next]_vars

-----------------------------------------------------------------------------
(* The same statements executed by interleaved calls.  Call c reads and    *)
(* writes the locals at Slot(c).                                           *)

Local(c) == locals[Slot(c)]

\* detect_language(t) by call c, lines 108-120
DetectCallBy(c) ==
    /\ calls[c].pc = "idle"
    /\ \E t \in ConcDetectTexts :
        IF IsBlank(t)
        THEN /\ calls' = [calls EXCEPT ![c] =
                     [@ EXCEPT !.op = "detect", !.input = t,
                               !.result = "None", !.pc = "done"]]
             /\ locals' = [locals EXCEPT ![Slot(c)] = [@ EXCEPT !.text = t]]
        ELSE /\ calls' = [calls EXCEPT ![c] =
                     [@ EXCEPT !.op = "detect", !.input = t, !.pc = "scan"]]
             /\ locals' = [locals EXCEPT ![Slot(c)] =
                     [@ EXCEPT !.text = t, !.char_counts = ZeroCounts, !.i = 0]]
    /\ UNCHANGED single

\* one iteration of `for char in text` by call c, lines 139-158
ScanCharBy(c) ==
    /\ calls[c].op = "detect"
    /\ calls[c].pc = "scan"
    /\ Local(c).i < Len(Local(c).text)
    /\ locals' = [locals EXCEPT ![Slot(c)] =
           [@ EXCEPT !.char_counts = CountChar(@, Local(c).text[Local(c).i + 1]),
                     !.i = @ + 1]]
    /\ UNCHANGED calls
    /\ UNCHANGED single

\* lines 160-196 by call c
DecideBy(c) ==
    /\ calls[c].op = "detect"
    /\ calls[c].pc = "scan"
    /\ Local(c).i = Len(Local(c).text)
    /\ calls' = [calls EXCEPT ![c] =
           [@ EXCEPT !.result = Decision(Local(c).char_counts), !.pc = "done"]]
    /\ UNCHANGED locals
    /\ UNCHANGED single

\* extract_first_sentence_for_detection(t, m) by call c, lines 45-48
ExtractCallBy(c) ==
    /\ calls[c].pc = "idle"
    /\ \E t \in ConcExtractTexts, m \in ConcMaxChars :
        IF IsBlank(t)
        THEN /\ calls' = [calls EXCEPT ![c] =
                     [@ EXCEPT !.op = "extract", !.input = t, !.max_chars = m,
                               !.extracted = <<>>, !.pc = "done"]]
             /\ locals' = [locals EXCEPT ![Slot(c)] = [@ EXCEPT !.text = t]]
        ELSE /\ calls' = [calls EXCEPT ![c] =
                     [@ EXCEPT !.op = "extract", !.input = t, !.max_chars = m,
                               !.pc = "delimit"]]
             /\ locals' = [locals EXCEPT ![Slot(c)] =
                     [@ EXCEPT !.text = Strip(t)]]
    /\ UNCHANGED single

\* lines 50-59 by call c
FindDelimiterBy(c) ==
    /\ calls[c].pc = "delimit"
    /\ locals' = [locals EXCEPT ![Slot(c)] =
           [@ EXCEPT !.first_sentence = FirstSentence(Local(c).text)]]
    /\ calls' = [calls EXCEPT ![c] = [@ EXCEPT !.pc = "truncate"]]
    /\ UNCHANGED single

\* lines 61-63 by call c
TruncateBy(c) ==
    /\ calls[c].pc = "truncate"
    /\ locals' = [locals EXCEPT ![Slot(c)] =
           [@ EXCEPT !.first_sentence = Truncated(@, calls[c].max_chars),
                     !.pattern_idx = 1]]
    /\ calls' = [calls EXCEPT ![c] = [@ EXCEPT !.pc = "quotes"]]
    /\ UNCHANGED single

\* one iteration of `for pattern in quote_patterns` by call c, lines 76-77
StripQuotesBy(c) ==
    /\ calls[c].pc = "quotes"
    /\ Local(c).pattern_idx <= Len(quote_patterns)
    /\ locals' = [locals EXCEPT ![Slot(c)] =
           [@ EXCEPT !.first_sentence =
                         ReSubQuote(@, quote_patterns[Local(c).pattern_idx]),
                     !.pattern_idx = @ + 1]]
    /\ UNCHANGED calls
    /\ UNCHANGED single

\* line 81 by call c
StripAcronymsBy(c) ==
    /\ calls[c].pc = "quotes"
    /\ Local(c).pattern_idx > Len(quote_patterns)
    /\ locals' = [locals EXCEPT ![Slot(c)] =
           [@ EXCEPT !.first_sentence = ReSubAcronym(@)]]
    /\ calls' = [calls EXCEPT ![c] = [@ EXCEPT !.pc = "whitespace"]]
    /\ UNCHANGED single

\* lines 84-86 by call c
CleanWhitespaceBy(c) ==
    /\ calls[c].pc = "whitespace"
    /\ locals' = [locals EXCEPT ![Slot(c)] =
           [@ EXCEPT !.first_sentence = Strip(ReSubSpaces(@))]]
    /\ calls' = [calls EXCEPT ![c] =
           [@ EXCEPT !.extracted = Strip(ReSubSpaces(Local(c).first_sentence)),
                     !.pc = "done"]]
    /\ UNCHANGED single

NextConc ==
    \E c \in Calls :
        \/ DetectCallBy(c)
        \/ ScanCharBy(c)
        \/ DecideBy(c)
        \/ ExtractCallBy(c)
        \/ FindDelimiterBy(c)
        \/ TruncateBy(c)
        \/ StripQuotesBy(c)
        \/ StripAcronymsBy(c)
        \/ CleanWhitespaceBy(c)

SpecConc == Init /\ [][NextConc]_vars

-----------------------------------------------------------------------------
(* Properties of detect_language.                                          *)

DetectDone == op = "detect" /\ pc = "done"

\* number of characters of s that the scan loop puts in class cls
Count(s, cls) == Cardinality({j \in 1..Len(s) : CharClass(s[j]) = cls})

Kana(s) == Count(s, "hiragana") + Count(s, "katakana")

\* the seven rules of the decision policy on the counts of the whole text
RuleHolds(r, s) ==
    CASE r = 1 -> 20 * Kana(s) > Len(s)
      [] r = 2 -> 2 * Count(s, "kanji") > Len(s)
      [] r = 3 -> Count(s, "vietnamese_unique") >= 1
      [] r = 4 -> Count(s, "vietnamese_common") >= 1
      [] r = 5 -> 2 * Count(s, "ascii") > Len(s)
      [] r = 6 -> Count(s, "ascii") > 0
      [] r = 7 -> TRUE

RuleOutcome ==
    <<"Japanese", "Japanese", "Vietnamese", "Vietnamese", "English",
      "English", "None">>

FirstRule(s) == Min({r \in 1..7 : RuleHolds(r, s)})

C2_KanaIsJapanese ==
    (DetectDone /\ 20 * Kana(input) > Len(input)) => result = "Japanese"

\* kana above 5% together with a tier-1 character and a majority of ASCII
C2_Witness ==
    /\ DetectDone
    /\ 20 * Kana(input) > Len(input)
    /\ Count(input, "vietnamese_unique") >= 1
    /\ 2 * Count(input, "ascii") > Len(input)
    /\ result = "Japanese"

\* C3 as stated: every text that contains a tier-1 Vietnamese character is
\* classified "Vietnamese".
C3_TierOneAlwaysVietnamese ==
    (DetectDone /\ Count(input, "vietnamese_unique") >= 1)
        => result = "Vietnamese"

\* C3 amended: a text that contains a tier-1 Vietnamese character, and in
\* which kana are at most 5% and kanji at most 50% of the characters, is
\* classified "Vietnamese", even when ASCII letters are the majority.
C3_TierOneUnlessJapanese ==
    (/\ DetectDone
     /\ Count(input, "vietnamese_unique") >= 1
     /\ 20 * Kana(input) <= Len(input)
     /\ 2 * Count(input, "kanji") <= Len(input))
        => result = "Vietnamese"

\* one tier-1 character in a text whose majority is ASCII letters
C3_Witness ==
    /\ DetectDone
    /\ Count(input, "vietnamese_unique") >= 1
    /\ 2 * Count(input, "ascii") > Len(input)
    /\ 20 * Kana(input) <= Len(input)
    /\ result = "Vietnamese"

\* a letter of the Latin-1 block U+00C0..U+00FF: the accented letters of
\* French, German and Spanish (c-cedilla, a-grave, a-circumflex, the umlauts,
\* n-tilde, ...), none of which is a Vietnamese tier-1 or tier-2 character
IsOtherLatinDiacritic(c) == c \in 192..255 /\ c \notin {215, 247}

\* C4: a text whose only non-ASCII characters are Latin diacritics outside both
\* Vietnamese tiers, and in which ASCII letters are more than half of all
\* characters, is classified "English".
C4_LatinDiacriticsAreEnglish ==
    (/\ DetectDone
     /\ \A j \in 1..Len(input) :
            input[j] < 128 \/ IsOtherLatinDiacritic(input[j])
     /\ 2 * Count(input, "ascii") > Len(input))
        => result = "English"

\* a majority-ASCII text that does contain such a diacritic
C4_Witness ==
    /\ DetectDone
    /\ \A j \in 1..Len(input) :
           input[j] < 128 \/ IsOtherLatinDiacritic(input[j])
    /\ \E j \in 1..Len(input) : IsOtherLatinDiacritic(input[j])
    /\ 2 * Count(input, "ascii") > Len(input)
    /\ result = "English"

\* every character of s is whitespace (the empty text included)
OnlyWhitespace(s) == \A j \in 1..Len(s) : IsSpace(s[j])

-----------------------------------------------------------------------------
(* Properties of extract_first_sentence_for_detection.                     *)

ExtractDone == op = "extract" /\ pc = "done"

\* the candidate has just been truncated and no pattern has been applied yet
CandidateReady == op = "extract" /\ pc = "quotes" /\ pattern_idx = 1

\* the shortest prefix of t that ends with a newline or a period, t when
\* there is none
DelimitedCandidate(t) ==
    LET ends == {j \in 1..Len(t) : t[j] = 10 \/ t[j] = 46}
    IN  IF ends = {} THEN t ELSE SubSeq(t, 1, Min(ends))

\* C6: for every text and positive max_chars, the candidate handed to the
\* quote and acronym stripping has at most max_chars characters, a longer
\* delimiter-bounded candidate being cut to exactly its first max_chars
\* characters, and the returned string has at most max_chars characters.
C6_AtMostMaxChars ==
    /\ CandidateReady =>
          /\ Len(first_sentence) <= max_chars
          /\ Len(DelimitedCandidate(text)) > max_chars =>
                first_sentence = SubSeq(DelimitedCandidate(text), 1, max_chars)
    /\ ExtractDone => Len(extracted) <= max_chars

\* a candidate longer than max_chars has been cut
C6_Witness ==
    /\ CandidateReady
    /\ Len(DelimitedCandidate(text)) > max_chars
    /\ Len(first_sentence) = max_chars

\* "What is ?"
WhatIsQuestion == <<87, 104, 97, 116, 32, 105, 115, 32, 63>>

\* "What is ? second sentence"
WhatIsWhole ==
    <<87, 104, 97, 116, 32, 105, 115, 32, 63, 32, 115, 101, 99, 111, 110,
      100, 32, 115, 101, 110, 116, 101, 110, 99, 101>>

CalledOn(t) == ExtractDone /\ input = t /\ max_chars = DefaultMaxChars

\* C7 as stated: with the default max_chars,
\* "What is 'machine learning'? second sentence" yields "What is ?".
C7_StopsAtQuestionMark == CalledOn(WhatIsExample) => extracted = WhatIsQuestion

\* C7 amended: with the default max_chars,
\* "What is 'machine learning'? second sentence" yields
\* "What is ? second sentence": the quoted span is removed and the text after
\* the question mark is kept, '?' being no sentence delimiter.
C7_KeepsTextAfterQuestionMark ==
    CalledOn(WhatIsExample) => extracted = WhatIsWhole

\* the call on the example text has returned
C7_Witness == CalledOn(WhatIsExample) /\ Len(extracted) > 0

\* the first sentence of JapaneseExample, up to the full-width question mark
JapaneseQuestion ==
    <<27231, 26800, 23398, 32722, 12392, 12399, 20309, 12391, 12377, 12363,
      65311>>

\* C8: with the default max_chars, the two-sentence Japanese text of the
\* docstring yields only its first sentence, up to and including the
\* full-width question mark.
C8_JapaneseFirstSentence ==
    CalledOn(JapaneseExample) => extracted = JapaneseQuestion

\* the quoted spans of s for the delimiters o and c, as <<first, last>>
\* positions, found from position from on: each runs from the first opening
\* delimiter that has a closing one after it to the nearest such closing one
RECURSIVE QuoteSpans(_, _, _, _)
QuoteSpans(s, o, c, from) ==
    LET opens == {p \in from..Len(s) :
                     s[p] = o /\ \E q \in (p + 1)..Len(s) : s[q] = c}
    IN  IF opens = {} THEN {}
        ELSE LET p == Min(opens)
                 q == Min({r \in (p + 1)..Len(s) : s[r] = c})
             IN  {<<p, q>>} \cup QuoteSpans(s, o, c, q + 1)

\* the characters of s at the positions K, in order
KeepSeq(s, K) ==
    [k \in 1..Cardinality(K) |->
        s[CHOOSE p \in K : Cardinality({x \in K : x < p}) = k - 1]]

\* s without the positions covered by the spans
WithoutSpans(s, spans) ==
    KeepSeq(s, {p \in 1..Len(s) :
                   \A sp \in spans : p < sp[1] \/ p > sp[2]})

\* an opening delimiter o with a closing delimiter c somewhere after it
HasPair(s, o, c) ==
    \E a \in 1..Len(s) : \E b \in (a + 1)..Len(s) : s[a] = o /\ s[b] = c

\* C9: each iteration of the quote loop deletes, for its delimiter type, every
\* span from an opening delimiter to the nearest following closing delimiter,
\* both delimiters included, keeps everything else (the text between two
\* spans, a delimiter without partner) and leaves no complete pair behind.
C9_QuoteStep ==
    [][(pc = "quotes" /\ pattern_idx <= Len(quote_patterns)) =>
          LET pat == quote_patterns[pattern_idx]
          IN  /\ first_sentence' =
                    WithoutSpans(first_sentence,
                        QuoteSpans(first_sentence, pat.open, pat.close, 1))
              /\ ~HasPair(first_sentence', pat.open, pat.close)]_vars

\* the double-quote pattern applied to ""a"": two spans deleted, the letter
\* between them kept
C9_Witness ==
    /\ op = "extract"
    /\ pc = "quotes"
    /\ pattern_idx = 2
    /\ text = <<34, 34, 97, 34, 34>>
    /\ max_chars = DefaultMaxChars
    /\ first_sentence = <<97>>

\* the six delimiter pairs of the quotation pattern set
SixPairs ==
    { <<34, 34>>, <<39, 39>>, <<12300, 12301>>, <<12302, 12303>>,
      <<8220, 8221>>, <<8216, 8217>> }

\* C10: after the quote loop no complete pair of any of the six delimiter
\* types (ASCII double, ASCII single, corner brackets, white corner brackets,
\* curly double, curly single) is left in the candidate or in the result.
C10_AllSixPairsStripped ==
    /\ (op = "extract" /\ pc = "whitespace") =>
          \A pr \in SixPairs : ~HasPair(first_sentence, pr[1], pr[2])
    /\ ExtractDone =>
          \A pr \in SixPairs : ~HasPair(extracted, pr[1], pr[2])


\* the standalone runs of 2 to 5 upper case ASCII letters of s, as
\* <<first, last>> positions: bounded on each side by a non-word character or
\* an end of s
AcronymSpans(s) ==
    {sp \in (1..Len(s)) \X (1..Len(s)) :
        /\ sp[2] - sp[1] + 1 \in 2..5
        /\ \A j \in sp[1]..sp[2] : s[j] \in 65..90
        /\ (sp[1] = 1 \/ ~IsWord(s[sp[1] - 1]))
        /\ (sp[2] = Len(s) \/ ~IsWord(s[sp[2] + 1]))}

\* "Explain concept."
ExplainConcept ==
    <<69, 120, 112, 108, 97, 105, 110, 32, 99, 111, 110, 99, 101, 112, 116,
      46>>

\* C11: the acronym step deletes exactly the standalone runs of 2 to 5 upper
\* case ASCII letters of the candidate and keeps everything else (single
\* letters, runs of 6 or more, upper case letters inside longer words); the
\* returned string contains no such run, and
\* "Explain NDA concept. More text." yields "Explain concept.".
C11_AcronymsRemoved ==
    [][/\ (pc = "quotes" /\ pattern_idx > Len(quote_patterns)) =>
             /\ first_sentence' =
                    WithoutSpans(first_sentence, AcronymSpans(first_sentence))
             /\ AcronymSpans(first_sentence') = {}
       /\ (op = "extract" /\ pc' = "done") =>
             /\ AcronymSpans(extracted') = {}
             /\ (input' = AcronymExample /\ max_chars' = DefaultMaxChars) =>
                    extracted' = ExplainConcept]_vars

\* a run of five letters deleted between two words
C11_Witness ==
    /\ ExtractDone
    /\ max_chars = DefaultMaxChars
    /\ input = <<97, 32, 65, 65, 65, 65, 65, 32, 97>>
    /\ extracted = <<97, 32, 97>>


\* u is t without its leading and trailing whitespace
IsTrimOf(u, t) ==
    \E a \in 1..(Len(t) + 1) : \E b \in 0..Len(t) :
        /\ u = SubSeq(t, a, b)
        /\ \A j \in 1..(a - 1) : IsSpace(t[j])
        /\ \A j \in (b + 1)..Len(t) : IsSpace(t[j])
        /\ Len(u) > 0 => (~IsSpace(u[1]) /\ ~IsSpace(u[Len(u)]))

\* C12: for every non-blank text the candidate formed before truncation is
\* the prefix of the trimmed text up to and including the earliest newline or
\* '.', the whole trimmed text when there is neither; the result is decided
\* by that prefix alone, so nothing after the first delimiter appears in it.
C12_FirstDelimiter ==
    /\ (op = "extract" /\ pc = "truncate") =>
          /\ IsTrimOf(text, input)
          /\ first_sentence = DelimitedCandidate(text)
    /\ (ExtractDone /\ ~OnlyWhitespace(input)) =>
          extracted = ExtractOf(DelimitedCandidate(text), max_chars)

\* a period before a newline, with text after both: the candidate ends at the
\* period
C12_Witness ==
    /\ op = "extract"
    /\ pc = "truncate"
    /\ \E a \in 1..Len(text) : \E b \in (a + 1)..(Len(text) - 1) :
           text[a] = 46 /\ text[b] = 10
    /\ first_sentence[Len(first_sentence)] = 46
    /\ Len(first_sentence) < Len(text)


\* C13: every returned string has no leading or trailing whitespace, no two
\* adjacent whitespace characters, and no whitespace character other than the
\* space, also where a quoted span or an acronym was deleted.
C13_WhitespaceNormalized ==
    ExtractDone =>
        /\ \A j \in 1..Len(extracted) :
               extracted[j] \in ({9, 10, 11, 12, 13, 28, 29, 30, 31, 133, 160,
                                  5760, 8232, 8233, 8239, 8287, 12288}
                                 \cup (8192..8202)) => FALSE
        /\ \A j \in 1..(Len(extracted) - 1) :
               ~(extracted[j] = 32 /\ extracted[j + 1] = 32)
        /\ Len(extracted) > 0 =>
               (extracted[1] # 32 /\ extracted[Len(extracted)] # 32)

\* a tab and an ideographic space around a deleted quoted span
C13_Witness ==
    /\ ExtractDone
    /\ input = <<97, 9, 34, 97, 34, 12288, 97>>
    /\ max_chars = DefaultMaxChars
    /\ extracted = <<97, 32, 97>>


Classes ==
    {"hiragana", "katakana", "kanji", "vietnamese_unique",
     "vietnamese_common", "ascii"}

ClassSum(cc) ==
    cc.hiragana + cc.katakana + cc.kanji + cc.vietnamese_unique
        + cc.vietnamese_common + cc.ascii

\* C16: the scan loop starts with all counts zero; at every step total is the
\* number of characters examined so far and the six class counts sum to at
\* most total; one iteration examines the next character, adds one to total
\* and one to at most one class count; the loop ends with total equal to the
\* length of the text.
C16_ScanLoop ==
    [][/\ (pc = "idle" /\ pc' = "scan") =>
              (i' = 0 /\ char_counts' = ZeroCounts)
       /\ (op = "detect" /\ pc = "scan") =>
              /\ char_counts.total = i
              /\ ClassSum(char_counts) <= char_counts.total
              /\ pc' = "scan" =>
                     /\ i' = i + 1
                     /\ i' <= Len(text)
                     /\ char_counts'.total = char_counts.total + 1
                     /\ \A cls \in Classes : char_counts'[cls] >= char_counts[cls]
                     /\ ClassSum(char_counts') - ClassSum(char_counts) \in {0, 1}
              /\ pc' = "done" =>
                     /\ i = Len(text)
                     /\ char_counts.total = Len(text)]_vars

\* the loop has examined a space and two classified characters
C16_Witness ==
    /\ op = "detect"
    /\ pc = "scan"
    /\ i = Len(text)
    /\ \E j \in 1..Len(text) : text[j] = 32
    /\ char_counts.total = 3
    /\ ClassSum(char_counts) = 2


\* C17: for every text t and positive max_chars m, applying
\* extract_first_sentence_for_detection to its own result with the same m
\* gives that result again.
C17_Idempotent ==
    ExtractDone => ExtractOf(extracted, max_chars) = extracted

\* a call that deleted an acronym and collapsed the gap it left
C17_Witness ==
    /\ ExtractDone
    /\ input = <<97, 32, 65, 65, 32, 97>>
    /\ max_chars = DefaultMaxChars
    /\ extracted = <<97, 32, 97>>
    /\ extracted # input


\* C18: for every text on which neither Japanese rule and neither Vietnamese
\* rule fires, detect_language returns "English" exactly when the text has at
\* least one ASCII letter, whatever share of the text the ASCII letters are.
C18_EnglishIffAsciiLetter ==
    (DetectDone /\ \A r \in 1..4 : ~RuleHolds(r, input)) =>
        (result = "English" <=> Count(input, "ascii") > 0)

\* one ASCII letter among three characters, below the majority threshold
C18_Witness ==
    /\ DetectDone
    /\ Len(input) = 3
    /\ Count(input, "ascii") = 1
    /\ \A r \in 1..5 : ~RuleHolds(r, input)
    /\ result = "English"


\* the rearrangements of s that are compared: every permutation of a text of
\* at most MaxLen characters; every exchange of two different characters and
\* the reversal of a longer one
Rearranged(s) ==
    LET n == Len(s)
    IN  IF n <= MaxLen
        THEN {[j \in 1..n |-> s[f[j]]] :
                 f \in {g \in [1..n -> 1..n] :
                           \A x, y \in 1..n : g[x] = g[y] => x = y}}
        ELSE {[j \in 1..n |-> IF j = q[1] THEN s[q[2]]
                               ELSE IF j = q[2] THEN s[q[1]] ELSE s[j]] :
                 q \in {r \in (1..n) \X (1..n) :
                           r[1] < r[2] /\ s[r[1]] # s[r[2]]}}
             \cup {[j \in 1..n |-> s[n + 1 - j]]}

\* C19: detect_language returns the same result on a text and on every
\* permutation of its characters.
C19_OrderIndependent ==
    DetectDone => \A t \in Rearranged(input) : DetectOf(t) = result

\* an ASCII letter, a kanji and a tier-1 letter, in this and in reverse order
C19_Witness ==
    /\ DetectDone
    /\ input = <<97, 26085, 273>>
    /\ result = "Vietnamese"
    /\ <<273, 26085, 97>> \in Rearranged(input)
    /\ DetectOf(<<273, 26085, 97>>) = "Vietnamese"


\* C14, as stated: every call with an argument that is not text fails with an
\* InvalidInput error and returns no result, and no call with a text argument
\* fails.
C14_NonTextFailsInvalidInput ==
    /\ (op # "none" /\ arg.type # "str") =>
           (pc = "raised" /\ raised = "InvalidInput")
    /\ (op # "none" /\ arg.type = "str") => (pc # "raised" /\ raised = "none")

\* the call is at a statement, and the guard of one of the actions for that
\* statement holds
HasNextStatement ==
    \/ pc = "scan" /\ (i < Len(text) \/ i = Len(text))
    \/ pc \in {"delimit", "truncate", "whitespace"}
    \/ pc = "quotes" /\ (pattern_idx <= Len(quote_patterns)
                          \/ pattern_idx > Len(quote_patterns))

\* C14, amended: a call with a false argument that is not text (None, zero,
\* an empty list) returns the result of a blank text, None or "", and raises
\* nothing; a call with a true argument that has no strip method (a non-zero
\* number, a non-empty list) ends with AttributeError and returns no result;
\* no call ends with InvalidInput; a call with a text argument raises nothing
\* and always has a next statement until it returns.
C14_NonTextArguments ==
    /\ raised # "InvalidInput"
    /\ (op # "none" /\ arg.type # "str" /\ ~arg.truthy) =>
           /\ pc = "done"
           /\ raised = "none"
           /\ op = "detect" => result = "None"
           /\ op = "extract" => extracted = <<>>
    /\ (op # "none" /\ arg.type # "str" /\ arg.truthy) =>
           /\ pc = "raised"
           /\ raised = "AttributeError"
           /\ result = "unset"
    /\ (op # "none" /\ arg.type = "str") =>
           /\ pc # "raised"
           /\ raised = "none"
           /\ pc # "done" => HasNextStatement

\* the extractor called with a non-empty list
C14_Witness ==
    /\ op = "extract"
    /\ pc = "raised"
    /\ arg = [type |-> "list", truthy |-> TRUE]
    /\ raised = "AttributeError"


\* C15: with the statements of several calls interleaved in any order, every
\* step changes the position, return value and locals of one call only, and
\* a call that returns has returned what the function returns on its
\* arguments when it runs alone.
C15_InterleavedCallsIsolated ==
    [][/\ \E c \in Calls : \A d \in Calls \ {c} :
              calls'[d] = calls[d] /\ locals'[d] = locals[d]
       /\ \A c \in Calls : calls'[c].pc = "done" =>
              /\ calls'[c].op = "detect" =>
                     calls'[c].result = DetectOf(calls'[c].input)
              /\ calls'[c].op = "extract" =>
                     calls'[c].extracted =
                         ExtractOf(calls'[c].input, calls'[c].max_chars)]_vars

\* a classification has returned while an extraction on another text is in
\* the middle of its quote loop
C15_Witness ==
    /\ calls[1].op = "detect"
    /\ calls[1].pc = "done"
    /\ calls[1].input = <<12354, 97>>
    /\ calls[1].result = "Japanese"
    /\ calls[2].op = "extract"
    /\ calls[2].pc = "quotes"
    /\ locals[2].pattern_idx = 3
    /\ locals[1].i = 2

=============================================================================
